---- MODULE Spec2Model ----
(***************************************************************************)
(* ChatCode (src/app.py): identity session cookie, OAuth state guard,      *)
(* social identity resolver and the user store, as a state machine.        *)
(*                                                                         *)
(* Conventions.  A Python str is a sequence of one-character strings.  An  *)
(* optional value (x | None) is a sequence of length at most one: None is  *)
(* <<>> and a present value v is <<v>>, so None differs from the empty     *)
(* string <<<<>>>>.  Time is in seconds since the process started.         *)
(***************************************************************************)
EXTENDS Integers, Sequences, FiniteSets, TLC

VARIABLES users, cookie, now, configured, last, resolved, pending

vars == <<users, cookie, now, configured, last, resolved, pending>>

----------------------------------------------------------------------------
(* Bounds of the model *)

\* rows the store may hold (the seeded admin included)
MaxUsers == 3
\* largest user id the signer is tried on
MaxId == 12
\* seconds the clock may run past the session max age
MaxSlack == 1

----------------------------------------------------------------------------
(* Python values *)

None == <<>>
Some(v) == <<v>>

\* truthiness of an optional str: None and "" are falsy
Truthy(o) == o # None /\ o[1] # <<>>

\* Python's `a or b` on optional strs
PyOr(a, b) == IF Truthy(a) THEN a ELSE b

DigitChars == <<"0", "1", "2", "3", "4", "5", "6", "7", "8", "9">>

Digits == {DigitChars[i] : i \in 1..10}

DigitVal(c) == (CHOOSE i \in 1..10 : DigitChars[i] = c) - 1

\* str(n) for an int n
RECURSIVE IntToStr(_)
IntToStr(n) ==
    IF n < 0 THEN <<"-">> \o IntToStr(0 - n)
    ELSE IF n < 10 THEN <<DigitChars[n + 1]>>
    ELSE Append(IntToStr(n \div 10), DigitChars[(n % 10) + 1])

\* str.isdigit(): non-empty and every character a digit
IsDigit(s) == s # <<>> /\ \A i \in 1..Len(s) : s[i] \in Digits

\* int(s) reading the digits from the wrong end
RECURSIVE StrToIntReversed(_)
StrToIntReversed(s) ==
    IF Len(s) = 1 THEN DigitVal(s[1])
    ELSE 10 * StrToIntReversed(Tail(s)) + DigitVal(s[1])

\* int(s) for a string of decimal digits
RECURSIVE StrToInt(_)
StrToInt(s) ==
    IF Len(s) = 1 THEN DigitVal(s[1])
    ELSE 10 * StrToInt(SubSeq(s, 1, Len(s) - 1)) + DigitVal(s[Len(s)])

\* c * n
Repeat(c, n) == [i \in 1..n |-> c]

Whitespace == {" ", "\n", "\t"}

\* str.strip()
RECURSIVE Strip(_)
Strip(s) ==
    IF s = <<>> THEN s
    ELSE IF s[1] \in Whitespace THEN Strip(Tail(s))
    ELSE IF s[Len(s)] \in Whitespace THEN Strip(SubSeq(s, 1, Len(s) - 1))
    ELSE s

\* index of the first "@" in s, or 0
RECURSIVE FindAt(_, _)
FindAt(s, i) ==
    IF i > Len(s) THEN 0
    ELSE IF s[i] = "@" THEN i
    ELSE FindAt(s, i + 1)

\* s.split('@')[0]
LocalPart(s) ==
    IF FindAt(s, 1) = 0 THEN s ELSE SubSeq(s, 1, FindAt(s, 1) - 1)

----------------------------------------------------------------------------
(* Session signer: itsdangerous.TimestampSigner(APP_SECRET)                *)

APP_SECRET == "APP_SECRET"

\* max_age=60*60*24*30 of read_session_cookie and of the SessionMiddleware
MaxAge == 60 * 60 * 24 * 30

MaxTime == MaxAge + MaxSlack

\* HMAC of value and timestamp under a key
Mac(key, value, ts) == [key |-> key, value |-> value, ts |-> ts]

\* signer.sign(value): value, timestamp and the base64 text of the MAC.  The
\* last base64 character of a 20-byte MAC carries two unused bits (pad); the
\* signer writes them as 0.
Sign(value, t) ==
    [value |-> value, ts |-> t, sig |-> Mac(APP_SECRET, value, t), pad |-> 0]

\* unsign called without max_age: the age is not checked
UnsignNoMaxAge(tok, max_age, t) ==
    IF tok.sig # Mac(APP_SECRET, tok.value, tok.ts)
        THEN [exc |-> "BadSignature", value |-> <<>>]
    ELSE [exc |-> "none", value |-> tok.value]

\* signer.unsign(token, max_age): the decoded signature must equal the MAC
\* (the decoder drops the unused bits), and the age must be within max_age.
\* SignatureExpired is a BadSignature.
Unsign(tok, max_age, t) ==
    IF tok.sig # Mac(APP_SECRET, tok.value, tok.ts)
        THEN [exc |-> "BadSignature", value |-> <<>>]
    ELSE IF t - tok.ts > max_age \/ t - tok.ts < 0
        THEN [exc |-> "BadSignature", value |-> <<>>]
    ELSE [exc |-> "none", value |-> tok.value]

create_session_cookie(user_id, t) == Sign(IntToStr(user_id), t)

\* the try block of read_session_cookie
ReadBody(value, t) ==
    LET r == Unsign(value, MaxAge, t) IN
    IF r.exc # "none" THEN [exc |-> r.exc, ret |-> None]
    ELSE IF IsDigit(r.value) THEN [exc |-> "none", ret |-> Some(StrToInt(r.value))]
    ELSE [exc |-> "none", ret |-> None]

\* read_session_cookie without its "except BadSignature"
ReadCaughtValueErrorOnly == {"ValueError"}

\* exceptions read_session_cookie catches
ReadCaught == {"BadSignature", "ValueError"}

\* read_session_cookie(value) -> int | None; raised: an exception escaped
read_session_cookie(value, t) ==
    LET b == ReadBody(value, t) IN
    IF b.exc = "none" THEN [raised |-> FALSE, ret |-> b.ret]
    ELSE IF b.exc \in ReadCaught THEN [raised |-> FALSE, ret |-> None]
    ELSE [raised |-> TRUE, ret |-> None]

----------------------------------------------------------------------------
(* Server-side session: starlette SessionMiddleware(secret_key=APP_SECRET) *)
(* keeps request.session in a signed cookie.  No session_cookie name is    *)
(* given, so the cookie is the middleware's default, "session": the same   *)
(* cookie name the handlers use for the identity token, and the same       *)
(* signer.                                                                 *)

\* values create_oauth_state() may return
Nonces == {"n1"}

\* request.session: the app's "oauth_state" key and the state entry the
\* OAuth client keeps for the redirect ("" stands for an absent key)
EmptySession == [oauth_state |-> "", client_state |-> ""]

SessionIsEmpty(s) == s.oauth_state = "" /\ s.client_state = ""

\* b64encode(json.dumps(session)): base64 of a JSON object starts "eyJ"
B64Json(s) == <<"eyJ", s.oauth_state, s.client_state>>

IsB64Json(v) == Len(v) = 3 /\ v[1] = "eyJ"

UnB64Json(v) == [oauth_state |-> v[2], client_state |-> v[3]]

\* The middleware's reading of the request cookie.  A cookie that fails
\* unsign gives an empty session.  A validly signed cookie whose value is
\* not a session blob (an identity token) makes b64decode/json.loads raise
\* ValueError, which the middleware does not catch (500); whether a build
\* treats it as an empty session instead is not fixed by the source, so both
\* outcomes are allowed.
LoadSession(c, t) ==
    IF c = None THEN {[crash |-> FALSE, empty |-> TRUE, session |-> EmptySession]}
    ELSE LET r == Unsign(c[1], MaxAge, t) IN
         IF r.exc # "none"
            THEN {[crash |-> FALSE, empty |-> TRUE, session |-> EmptySession]}
         ELSE IF IsB64Json(r.value)
            THEN {[crash |-> FALSE, empty |-> FALSE, session |-> UnB64Json(r.value)]}
         ELSE {[crash |-> TRUE, empty |-> TRUE, session |-> EmptySession],
               [crash |-> FALSE, empty |-> TRUE, session |-> EmptySession]}

\* what a handler does to the "session" cookie in its response
NoCookieOp == [kind |-> "none", token |-> None]
SetCookieOp(tok) == [kind |-> "set", token |-> Some(tok)]
DelCookieOp == [kind |-> "delete", token |-> None]

\* a middleware that writes the session back only when the request changed
\* it and expires the cookie otherwise
SendWrapperModifiedOnly(c, ld, sess, op, t) ==
    IF sess # ld.session /\ ~SessionIsEmpty(sess) THEN Some(Sign(B64Json(sess), t))
    ELSE IF op.kind = "set" THEN op.token
    ELSE None

\* The browser's "session" cookie after the response: the handler's
\* Set-Cookie first, then the header the middleware appends (a non-empty
\* session is written back, a session emptied during the request is
\* expired); the later header wins.
SendWrapper(c, ld, sess, op, t) ==
    IF ~SessionIsEmpty(sess) THEN Some(Sign(B64Json(sess), t))
    ELSE IF ~ld.empty THEN None
    ELSE IF op.kind = "set" THEN op.token
    ELSE IF op.kind = "delete" THEN None
    ELSE c

\* the nonce the browser's server-side session holds ("" if none)
StoredNonce(c, t) ==
    IF c = None THEN ""
    ELSE LET r == Unsign(c[1], MaxAge, t) IN
         IF r.exc = "none" /\ IsB64Json(r.value) THEN r.value[2] ELSE ""

----------------------------------------------------------------------------
(* Strings of the program and of the requests *)

S_google == <<"g", "o", "o", "g", "l", "e">>
S_github == <<"g", "i", "t", "h", "u", "b">>
S_gitlab == <<"g", "i", "t", "l", "a", "b">>
S_admin == <<"a", "d", "m", "i", "n">>
S_admin_1 == <<"a", "d", "m", "i", "n", "_", "1">>
S_None == <<"N", "o", "n", "e">>
S_admin123 == <<"a", "d", "m", "i", "n", "1", "2", "3">>
S_pw == <<"p", "w">>
\* "+77019601017", the seeded admin's phone
S_adminPhone == <<"+", "7", "7", "0", "1", "9", "6", "0", "1", "0", "1", "7">>
S_phone == <<"+", "7", "7", "0", "1", "1", "2", "3", "4", "5", "6", "7">>
S_badPhone == <<"7", "7", "0", "1">>
\* a phone followed by a line feed
S_newlinePhone == S_phone \o <<"\n">>
S_badName == <<"x", "!">>
S_mailA == <<"a", "d", "m", "i", "n", "@", "x", ".", "i", "o">>
S_mailB == <<"b", "o", "b", "@", "y", ".", "i", "o">>
S_42 == <<"4", "2">>
S_Ann == <<"A", "n", "n">>
S_ann == <<"a", "n", "n">>
S_pic == <<"p", ".", "p", "n", "g">>

----------------------------------------------------------------------------
(* Utils *)

\* characters \d matches in a str pattern: any Unicode decimal digit
\* ("u0663" stands for the one character ARABIC-INDIC DIGIT THREE)
RegexDigits == Digits \cup {"u0663"}

E164Core(p) ==
    /\ Len(p) >= 10 /\ Len(p) <= 16
    /\ p[1] = "+"
    /\ p[2] \in Digits \ {"0"}
    /\ \A i \in 3..Len(p) : p[i] \in RegexDigits

\* E164_RE.match(p) for ^\+[1-9]\d{8,14}$ ($ also matches before a final
\* newline)
E164Match(p) ==
    \/ E164Core(p)
    \/ /\ p # <<>>
       /\ p[Len(p)] = "\n"
       /\ E164Core(SubSeq(p, 1, Len(p) - 1))

Salts == {"s1"}

\* the bytes of a password that bcrypt takes into the digest
BcryptMaxBytes == 72

\* pwd_ctx.hash(p): bcrypt with a random salt over the first 72 bytes of p
hash_password(p, salt) ==
    <<"$2b$", salt,
      IF Len(p) > BcryptMaxBytes THEN SubSeq(p, 1, BcryptMaxBytes) ELSE p>>

\* pwd_ctx.verify(p, h): rehash p with h's salt and compare
verify_password(p, h) == h = hash_password(p, h[2])

----------------------------------------------------------------------------
(* Models: the User table *)

\* User(username=...) with the defaults of the class
User(id, username) ==
    [id |-> id, username |-> username, password_hash |-> None,
     phone_e164 |-> None, preset_text |-> None,
     is_admin |-> FALSE, is_active |-> TRUE,
     created_at |-> None, last_login |-> None,
     email |-> None, full_name |-> None, profile_picture |-> None,
     social_provider |-> None, social_id |-> None, social_data |-> None]

Ids(us) == {u.id : u \in us}

\* primary key the database gives a new row: the id column is an INTEGER
\* PRIMARY KEY without AUTOINCREMENT, for which the SQLite engine takes one
\* more than the largest id in the table
NextId(us) == IF us = {} THEN 1 ELSE (CHOOSE m \in Ids(us) : \A i \in Ids(us) : i <= m) + 1

\* s.get(User, id)
GetUser(us, id) ==
    IF id \in Ids(us) THEN Some(CHOOSE u \in us : u.id = id) ELSE None

\* select(User).where(User.username == name)
ByUsername(us, name) == {u \in us : u.username = name}

\* the store with row r written back (s.add(r); s.commit())
Commit(us, r) == {u \in us : u.id # r.id} \cup {r}

\* create_admin_user() on an empty store
AdminRow ==
    [User(1, S_admin) EXCEPT
        !.password_hash = Some(hash_password(S_admin123, "s1")),
        !.phone_e164 = Some(S_adminPhone),
        !.is_admin = TRUE, !.is_active = TRUE, !.created_at = Some(0)]

\* get_current_user(request)
get_current_user(c, t, us) ==
    IF c = None THEN None
    ELSE LET rd == read_session_cookie(c[1], t) IN
         IF rd.raised THEN None
         ELSE IF rd.ret = None \/ rd.ret[1] = 0 THEN None
         ELSE GetUser(us, rd.ret[1])

----------------------------------------------------------------------------
(* Requests and responses *)

\* the last request handled and the response to it: the handler, the
\* status, the redirect target, what the handler did to the "session"
\* cookie, the user it acted for, the state parameter it was given and the
\* way find_or_create_social_user resolved the user ("provider", "email",
\* "create", or "" when it was not called), the detail message of a
\* refused login, and the chat link a QR route built
Resp(op, status, loc, ck, uid, state) ==
    [op |-> op, status |-> status, loc |-> loc, cookie_op |-> ck,
     uid |-> uid, state |-> state, branch |-> "", detail |-> "",
     link |-> None]

\* handler response and the middleware's send_wrapper
Respond(ld, sess, r) ==
    /\ cookie' = SendWrapper(cookie, ld, sess, r.cookie_op, now)
    /\ last' = r

\* A request that fails in the middleware before any handler runs: the 500
\* response does not pass send_wrapper
MiddlewareError ==
    \E ld \in LoadSession(cookie, now) :
        /\ ld.crash
        /\ last' = Resp("error", 500, "", NoCookieOp, None, None)
        /\ UNCHANGED <<users, cookie, now, configured, resolved, pending>>

RegisterNames == {S_admin, S_admin_1}
RegisterPhones == {S_phone, S_badPhone}
RegisterPresets == {<<" ", "H", "i">>}
Passwords == {S_pw}

\* POST /register with a password of the given set
RegisterWith(passwords) ==
    \E ld \in LoadSession(cookie, now), username \in RegisterNames,
       password \in passwords, phone \in RegisterPhones,
       preset \in RegisterPresets, salt \in Salts :
        /\ ~ld.crash
        /\ UNCHANGED <<now, configured, resolved, pending>>
        /\ IF ~E164Match(phone) \/ ByUsername(users, username) # {}
           THEN /\ UNCHANGED users
                /\ Respond(ld, ld.session,
                           Resp("register", 400, "", NoCookieOp, None, None))
           ELSE /\ Cardinality(users) < MaxUsers
                /\ NextId(users) <= MaxUsers + 1
                /\ LET u == [User(NextId(users), username) EXCEPT
                                !.password_hash = Some(hash_password(password, salt)),
                                !.phone_e164 = Some(phone),
                                !.preset_text =
                                    IF Strip(preset) = <<>> THEN None
                                    ELSE Some(Strip(preset)),
                                !.created_at = Some(now),
                                !.last_login = Some(now)]
                   IN /\ users' = users \cup {u}
                      /\ Respond(ld, ld.session,
                                 Resp("register", 303, "/dashboard",
                                      SetCookieOp(create_session_cookie(u.id, now)),
                                      Some(u.id), None))

\* POST /register
register_action == RegisterWith(Passwords)

LoginNames == {S_admin, S_admin_1, S_ann}
LoginPasswords == {S_pw, S_admin123}

\* raise HTTPException(401, detail)
LoginRefused(detail) ==
    [Resp("login", 401, "", NoCookieOp, None, None) EXCEPT !.detail = detail]

\* the checks on the row found without the one of the active flag
LoginRefusalIgnoringActive(u, password) ==
    IF u.password_hash = None THEN "Please use social login for this account"
    ELSE IF ~verify_password(password, u.password_hash[1]) THEN "Invalid credentials"
    ELSE ""

\* the checks of login_action on the row found, in the order of the code:
\* the detail of the 401 response, or "" when the login is accepted
LoginRefusal(u, password) ==
    IF u.password_hash = None THEN "Please use social login for this account"
    ELSE IF ~verify_password(password, u.password_hash[1]) THEN "Invalid credentials"
    ELSE IF ~u.is_active THEN "Account is deactivated"
    ELSE ""

\* login_action(username, password) on the store us at time t: the store it
\* leaves and its response
LoginOutcomes(us, username, password, t) ==
    LET found == ByUsername(us, username) IN
    IF found = {}
    THEN {[store |-> us, resp |-> LoginRefused("Invalid credentials")]}
    ELSE {LET refusal == LoginRefusal(u, password) IN
          IF refusal # ""
          THEN [store |-> us, resp |-> LoginRefused(refusal)]
          ELSE [store |-> Commit(us, [u EXCEPT !.last_login = Some(t)]),
                resp |-> Resp("login", 303, "/dashboard",
                              SetCookieOp(create_session_cookie(u.id, t)),
                              Some(u.id), None)]
          : u \in found}

\* POST /login with a password of the given set
LoginWith(passwords) ==
    \E ld \in LoadSession(cookie, now), username \in LoginNames,
       password \in passwords :
        /\ ~ld.crash
        /\ UNCHANGED <<now, configured, resolved, pending>>
        /\ \E o \in LoginOutcomes(users, username, password, now) :
              /\ users' = o.store
              /\ Respond(ld, ld.session, o.resp)

\* POST /login
login_action == LoginWith(LoginPasswords)

\* GET /logout
logout ==
    \E ld \in LoadSession(cookie, now) :
        /\ ~ld.crash
        /\ UNCHANGED <<users, now, configured, resolved, pending>>
        /\ Respond(ld, ld.session,
                   Resp("logout", 303, "/", DelCookieOp, None, None))

\* GET /dashboard
dashboard ==
    \E ld \in LoadSession(cookie, now) :
        /\ ~ld.crash
        /\ UNCHANGED <<users, now, configured, resolved, pending>>
        /\ LET user == get_current_user(cookie, now, users) IN
           IF user = None
           THEN Respond(ld, ld.session,
                        Resp("dashboard", 307, "/login", NoCookieOp, None, None))
           ELSE Respond(ld, ld.session,
                        Resp("dashboard", 200, "", NoCookieOp, Some(user[1].id),
                             None))

\* the current user if they are an admin, active or not
GetAdminIgnoringActive(c, t, us) ==
    LET user == get_current_user(c, t, us) IN
    IF user # None /\ user[1].is_admin THEN user ELSE None

\* get_admin_user(request)
get_admin_user(c, t, us) ==
    LET user == get_current_user(c, t, us) IN
    IF user # None /\ user[1].is_admin /\ user[1].is_active THEN user ELSE None

\* require_admin refused the request
Forbidden(op) == Resp(op, 403, "", NoCookieOp, None, None)

\* raise HTTPException(status, ...) in a handler
Refused(op, status) == Resp(op, status, "", NoCookieOp, None, None)

\* preset.strip() or None
PresetOf(preset) == IF Strip(preset) = <<>> THEN None ELSE Some(Strip(preset))

\* phone if phone else None
PhoneOf(phone) == IF phone = <<>> THEN None ELSE Some(phone)

SettingsPhones == {S_badPhone, S_newlinePhone}
SettingsPresets == {<<>>}

\* POST /settings
update_settings ==
    \E ld \in LoadSession(cookie, now), phone \in SettingsPhones,
       preset \in SettingsPresets :
        /\ ~ld.crash
        /\ UNCHANGED <<now, configured, resolved, pending>>
        /\ LET user == get_current_user(cookie, now, users) IN
           IF user = None
           THEN /\ UNCHANGED users
                /\ Respond(ld, ld.session,
                           Resp("settings", 307, "/login", NoCookieOp, None, None))
           ELSE IF ~E164Match(phone)
           THEN /\ UNCHANGED users
                /\ Respond(ld, ld.session, Refused("settings", 400))
           ELSE /\ users' = Commit(users, [user[1] EXCEPT
                                             !.phone_e164 = Some(phone),
                                             !.preset_text = PresetOf(preset)])
                /\ Respond(ld, ld.session,
                           Resp("settings", 303, "/dashboard", NoCookieOp,
                                Some(user[1].id), None))

\* the form of the admin pages: unchecked boxes are sent as False
AdminForm(username, password, phone, is_admin, is_active) ==
    [username |-> username, password |-> password, phone |-> phone,
     preset |-> <<>>, is_admin |-> is_admin, is_active |-> is_active]

\* the forms posted to /admin/users/create
AdminCreateForms ==
    {AdminForm(S_admin_1, S_pw, <<>>, TRUE, TRUE),
     AdminForm(S_badName, S_pw, <<>>, FALSE, FALSE),
     AdminForm(S_admin_1, S_pw, S_badPhone, FALSE, FALSE)}

\* the forms posted to /admin/users/{user_id}/update
AdminUpdateForms ==
    {AdminForm(S_admin, <<>>, <<>>, FALSE, FALSE),
     AdminForm(S_admin_1, <<>>, <<>>, TRUE, TRUE),
     AdminForm(S_admin_1, S_pw, S_phone, TRUE, TRUE),
     AdminForm(S_admin_1, <<>>, S_badPhone, TRUE, TRUE)}

\* the user_id of the path: the keys the database may have given out
UserIdParams == 1..(MaxUsers + 1)

\* POST /admin/users/create
admin_create_user ==
    \E ld \in LoadSession(cookie, now), form \in AdminCreateForms,
       salt \in Salts :
        LET username == form.username
            password == form.password
            phone == form.phone
            preset == form.preset
            flags == form
        IN
        /\ ~ld.crash
        /\ UNCHANGED <<now, configured, resolved, pending>>
        /\ IF get_admin_user(cookie, now, users) = None
           THEN /\ UNCHANGED users
                /\ Respond(ld, ld.session, Forbidden("admin_create"))
           ELSE IF phone # <<>> /\ ~E164Match(phone)
           THEN /\ UNCHANGED users
                /\ Respond(ld, ld.session, Refused("admin_create", 400))
           ELSE IF ByUsername(users, username) # {}
           THEN /\ UNCHANGED users
                /\ Respond(ld, ld.session, Refused("admin_create", 400))
           ELSE /\ Cardinality(users) < MaxUsers
                /\ NextId(users) <= MaxUsers + 1
                /\ users' = users \cup
                     {[User(NextId(users), username) EXCEPT
                         !.password_hash = Some(hash_password(password, salt)),
                         !.phone_e164 = PhoneOf(phone),
                         !.preset_text = PresetOf(preset),
                         !.is_admin = flags.is_admin,
                         !.is_active = flags.is_active,
                         !.created_at = Some(now)]}
                /\ Respond(ld, ld.session,
                           Resp("admin_create", 303, "/admin/users", NoCookieOp,
                                None, None))

\* a check that lets a username pass whoever holds it
TakenByAnyOtherId(us, username, user_id) == {}

\* select(User).where(User.username == username, User.id != user_id)
TakenByOther(us, username, user_id) ==
    {u \in us : u.username = username /\ u.id # user_id}

\* a password step that clears the hash when no password is given
NewPasswordHashOrNone(user, password, salt) ==
    IF password # <<>> THEN Some(hash_password(password, salt)) ELSE None

\* if password: user.password_hash = hash_password(password)
NewPasswordHash(user, password, salt) ==
    IF password # <<>> THEN Some(hash_password(password, salt))
    ELSE user.password_hash

\* POST /admin/users/{user_id}/update
admin_update_user ==
    \E ld \in LoadSession(cookie, now), user_id \in UserIdParams,
       form \in AdminUpdateForms, salt \in Salts :
        LET username == form.username
            password == form.password
            phone == form.phone
            preset == form.preset
            flags == form
        IN
        /\ ~ld.crash
        /\ UNCHANGED <<now, configured, resolved, pending>>
        /\ IF get_admin_user(cookie, now, users) = None
           THEN /\ UNCHANGED users
                /\ Respond(ld, ld.session, Forbidden("admin_update"))
           ELSE IF GetUser(users, user_id) = None
           THEN /\ UNCHANGED users
                /\ Respond(ld, ld.session, Refused("admin_update", 404))
           ELSE IF TakenByOther(users, username, user_id) # {}
           THEN /\ UNCHANGED users
                /\ Respond(ld, ld.session, Refused("admin_update", 400))
           ELSE IF phone # <<>> /\ ~E164Match(phone)
           THEN /\ UNCHANGED users
                /\ Respond(ld, ld.session, Refused("admin_update", 400))
           ELSE LET user == GetUser(users, user_id)[1] IN
                /\ users' = Commit(users, [user EXCEPT
                                 !.username = username,
                                 !.phone_e164 = PhoneOf(phone),
                                 !.preset_text = PresetOf(preset),
                                 !.is_admin = flags.is_admin,
                                 !.is_active = flags.is_active,
                                 !.password_hash =
                                     NewPasswordHash(user, password, salt)])
                /\ Respond(ld, ld.session,
                           Resp("admin_update", 303, "/admin/users/edit",
                                NoCookieOp, None, None))

\* POST /admin/users/{user_id}/toggle-status
admin_toggle_user_status ==
    \E ld \in LoadSession(cookie, now), user_id \in UserIdParams :
        /\ ~ld.crash
        /\ UNCHANGED <<now, configured, resolved, pending>>
        /\ IF get_admin_user(cookie, now, users) = None
           THEN /\ UNCHANGED users
                /\ Respond(ld, ld.session, Forbidden("admin_toggle"))
           ELSE IF GetUser(users, user_id) = None
           THEN /\ UNCHANGED users
                /\ Respond(ld, ld.session, Refused("admin_toggle", 404))
           ELSE LET user == GetUser(users, user_id)[1] IN
                /\ users' = Commit(users, [user EXCEPT !.is_active = ~user.is_active])
                /\ Respond(ld, ld.session,
                           Resp("admin_toggle", 200, "", NoCookieOp, None, None))

\* POST /admin/users/{user_id}/delete
admin_delete_user ==
    \E ld \in LoadSession(cookie, now), user_id \in UserIdParams :
        /\ ~ld.crash
        /\ UNCHANGED <<now, configured, resolved, pending>>
        /\ IF get_admin_user(cookie, now, users) = None
           THEN /\ UNCHANGED users
                /\ Respond(ld, ld.session, Forbidden("admin_delete"))
           ELSE IF GetUser(users, user_id) = None
           THEN /\ UNCHANGED users
                /\ Respond(ld, ld.session, Refused("admin_delete", 404))
           ELSE IF GetUser(users, user_id)[1].is_admin
           THEN /\ UNCHANGED users
                /\ Respond(ld, ld.session, Refused("admin_delete", 400))
           ELSE /\ users' = users \ {GetUser(users, user_id)[1]}
                /\ Respond(ld, ld.session,
                           Resp("admin_delete", 200, "", NoCookieOp,
                                Some(user_id), None))

----------------------------------------------------------------------------
(* The chat link and the QR routes *)

\* the printable ASCII characters, from chr(32) to chr(126); the backslash
\* and the backtick, which no string of the model holds, are written by name
Ascii ==
    <<" ", "!", "\"", "#", "$", "%", "&", "'", "(", ")", "*", "+", ",",
      "-", ".", "/", "0", "1", "2", "3", "4", "5", "6", "7", "8", "9", ":",
      ";", "<", "=", ">", "?", "@", "A", "B", "C", "D", "E", "F", "G", "H",
      "I", "J", "K", "L", "M", "N", "O", "P", "Q", "R", "S", "T", "U", "V",
      "W", "X", "Y", "Z", "[", "bslash", "]", "^", "_", "backtick", "a", "b", "c",
      "d", "e", "f", "g", "h", "i", "j", "k", "l", "m", "n", "o", "p", "q",
      "r", "s", "t", "u", "v", "w", "x", "y", "z", "{", "|", "}", "~">>

\* ord(c) of an ASCII character
Ord(c) ==
    IF c = "\n" THEN 10
    ELSE 31 + (CHOOSE i \in 1..Len(Ascii) : Ascii[i] = c)

HexDigits ==
    <<"0", "1", "2", "3", "4", "5", "6", "7", "8", "9",
      "A", "B", "C", "D", "E", "F">>

\* the characters urllib.parse.quote never quotes, and its default safe='/'
QuoteSafe ==
    {Ascii[i] : i \in {j \in 1..Len(Ascii) :
                          \/ Ord(Ascii[j]) \in 48..57
                          \/ Ord(Ascii[j]) \in 65..90
                          \/ Ord(Ascii[j]) \in 97..122}}
        \cup {"_", ".", "-", "~", "/"}

\* '%{:02X}'.format(byte)
PercentByte(c) ==
    <<"%", HexDigits[(Ord(c) \div 16) + 1], HexDigits[(Ord(c) % 16) + 1]>>

RECURSIVE Quote(_)
\* urllib.parse.quote(s)
Quote(s) ==
    IF s = <<>> THEN <<>>
    ELSE (IF Head(s) \in QuoteSafe THEN <<Head(s)>> ELSE PercentByte(Head(s)))
            \o Quote(Tail(s))

RECURSIVE LStrip(_, _)
\* s.lstrip(ch)
LStrip(s, ch) ==
    IF s # <<>> /\ Head(s) = ch THEN LStrip(Tail(s), ch) ELSE s

VIRAL_MARKETING_MESSAGE ==
    <<"H", "i", ".", " ", "N", "i", "c", "e", " ", "t", "o", " ", "m", "e",
      "e", "t", " ", "y", "o", "u", ".", "\n", "\n", "G", "e", "t", " ",
      "Q", "R", " ", "f", "o", "r", " ", "f", "r", "e", "e", " ", "a", "t",
      " ", "h", "t", "t", "p", "s", ":", "/", "/", "c", "h", "a", "t", "c",
      "o", "d", "e", ".", "s", "u">>

S_waMe == <<"h", "t", "t", "p", "s", ":", "/", "/", "w", "a", ".", "m", "e", "/">>
S_textParam == <<"?", "t", "e", "x", "t", "=">>

\* the promotional text whatever the preset is
ViralMessageAlone(preset_text) == VIRAL_MARKETING_MESSAGE

\* get_viral_message_with_preset(preset_text)
get_viral_message_with_preset(preset_text) ==
    IF Truthy(preset_text) /\ Strip(preset_text[1]) # <<>>
    THEN Strip(preset_text[1]) \o <<"\n", "\n">> \o VIRAL_MARKETING_MESSAGE
    ELSE VIRAL_MARKETING_MESSAGE

\* the link qr_png draws: user.phone_e164.lstrip('+') raises AttributeError
\* when the phone is None
QrPngLink(user) ==
    IF user.phone_e164 = None THEN [raised |-> TRUE, link |-> <<>>]
    ELSE [raised |-> FALSE,
          link |-> S_waMe \o LStrip(user.phone_e164[1], "+") \o S_textParam
                      \o Quote(get_viral_message_with_preset(user.preset_text))]

\* the link public_qr puts on the page, built by its own copy of the lines
PublicQrLink(user) ==
    IF user.phone_e164 = None THEN [raised |-> TRUE, link |-> <<>>]
    ELSE [raised |-> FALSE,
          link |-> S_waMe \o LStrip(user.phone_e164[1], "+") \o S_textParam
                      \o Quote(get_viral_message_with_preset(user.preset_text))]

QrNames == {S_admin, S_admin_1, S_ann}

\* the response of a QR route to the outcome of its link construction: an
\* exception that is no HTTPException becomes the server's 500 response,
\* which does not pass send_wrapper
QrRespond(op, ld, found, built) ==
    IF found = {}
    THEN Respond(ld, ld.session, Refused(op, 404))
    ELSE \E user \in found :
         IF built[user].raised
         THEN /\ last' = Resp(op, 500, "", NoCookieOp, Some(user.id), None)
              /\ UNCHANGED cookie
         ELSE Respond(ld, ld.session,
                      [Resp(op, 200, "", NoCookieOp, Some(user.id), None)
                          EXCEPT !.link = Some(built[user].link)])

\* GET /qr.png?u=...
qr_png ==
    \E ld \in LoadSession(cookie, now), u \in QrNames :
        /\ ~ld.crash
        /\ UNCHANGED <<users, now, configured, resolved, pending>>
        /\ LET found == ByUsername(users, u) IN
           QrRespond("qr_png", ld, found, [user \in found |-> QrPngLink(user)])

\* GET /u/{username}
public_qr ==
    \E ld \in LoadSession(cookie, now), username \in QrNames :
        /\ ~ld.crash
        /\ UNCHANGED <<users, now, configured, resolved, pending>>
        /\ LET found == ByUsername(users, username) IN
           QrRespond("public_qr", ld, found,
                     [user \in found |-> PublicQrLink(user)])

----------------------------------------------------------------------------
(* OAuth state and provider helpers *)

Providers == {S_google, S_github}

\* validate_oauth_provider(provider): supported and configured
validate_oauth_provider(provider, conf) ==
    IF provider \notin {S_google, S_github} THEN FALSE
    ELSE provider \in conf

\* verify_oauth_state that only looks for a stored state
VerifyStoredOnly(sess, state) == sess.oauth_state # ""

\* verify_oauth_state(request, state)
verify_oauth_state(sess, state) ==
    IF sess.oauth_state # "" THEN sess.oauth_state = state ELSE FALSE

\* store_oauth_state(request, state)
store_oauth_state(sess, state) == [sess EXCEPT !.oauth_state = state]

\* clear_oauth_state that pops nothing
ClearNothing(sess) == sess

\* clear_oauth_state(request)
clear_oauth_state(sess) == [sess EXCEPT !.oauth_state = ""]

\* value.replace('<', '&lt;').replace('>', '&gt;')
RECURSIVE Escape(_)
Escape(s) ==
    IF s = <<>> THEN s
    ELSE IF Len(s) = 1
    THEN (IF s[1] = "<" THEN <<"&", "l", "t", ";">>
          ELSE IF s[1] = ">" THEN <<"&", "g", "t", ";">>
          ELSE s)
    ELSE LET half == Len(s) \div 2
         IN Escape(SubSeq(s, 1, half)) \o Escape(SubSeq(s, half + 1, Len(s)))

\* the length limit of sanitize_user_input
SanitizeMaxLen == 500

\* one field, with the length limit put on the value as it came in
SanitizeFieldRawLength(v) ==
    IF ~Truthy(v) THEN None
    ELSE IF Len(v[1]) <= SanitizeMaxLen THEN Some(Escape(Strip(v[1])))
    ELSE None

\* one field of sanitize_user_input: absent, empty and over-long values are
\* left out
SanitizeField(v) ==
    IF ~Truthy(v) THEN None
    ELSE IF Len(Escape(Strip(v[1]))) <= SanitizeMaxLen
        THEN Some(Escape(Strip(v[1])))
    ELSE None

\* sanitize_user_input(data): only the allowed fields are kept
sanitize_user_input(data) ==
    [id |-> SanitizeField(data.id), email |-> SanitizeField(data.email),
     name |-> SanitizeField(data.name), login |-> SanitizeField(data.login),
     picture |-> SanitizeField(data.picture),
     avatar_url |-> SanitizeField(data.avatar_url)]

\* update_user_profile_from_social(user, provider, user_info)
update_user_profile_from_social(user, provider, info, t) ==
    LET u == IF provider = S_google
             THEN [user EXCEPT
                     !.email = PyOr(info.email, user.email),
                     !.full_name = PyOr(info.name, user.full_name),
                     !.profile_picture = PyOr(info.picture, user.profile_picture)]
             ELSE IF provider = S_github
             THEN [user EXCEPT
                     !.full_name = PyOr(info.name, PyOr(info.login, user.full_name)),
                     !.profile_picture = PyOr(info.avatar_url, user.profile_picture)]
             ELSE user
    IN [u EXCEPT !.social_data = Some(info), !.last_login = Some(t)]

\* a loop that appends the counter to the previous candidate
RECURSIVE UniqueUsernameChained(_, _, _, _)
UniqueUsernameChained(us, base, username, counter) ==
    IF ByUsername(us, username) # {}
    THEN UniqueUsernameChained(us, base,
                               username \o <<"_">> \o IntToStr(counter), counter + 1)
    ELSE username

\* the loop "while a row has this username: username = base_counter"
RECURSIVE UniqueUsername(_, _, _, _)
UniqueUsername(us, base, username, counter) ==
    IF ByUsername(us, username) # {}
    THEN UniqueUsername(us, base, base \o <<"_">> \o IntToStr(counter), counter + 1)
    ELSE username

\* a lookup that compares the two columns crosswise
ByProviderSwapped(us, provider, social_id) ==
    {u \in us : u.social_provider = Some(social_id) /\ u.social_id = Some(provider)}

\* select(User).where(User.social_provider == provider,
\*                     User.social_id == social_id)
ByProvider(us, provider, social_id) ==
    {u \in us : u.social_provider = Some(provider) /\ u.social_id = Some(social_id)}

\* a lookup that compares the username column
ByEmailUsername(us, email) == {u \in us : u.username = email}

\* select(User).where(User.email == email)
ByEmail(us, email) == {u \in us : u.email = Some(email)}

\* find_or_create_social_user(provider, social_id, user_info, email): the
\* possible results (.first() of a query without ORDER BY returns any of the
\* matching rows), each with the store after the commit
find_or_create_social_user(us, provider, social_id, info, email, t) ==
    LET byProvider == ByProvider(us, provider, social_id)
        byEmail == IF Truthy(email) THEN ByEmail(us, email[1]) ELSE {}
    IN
    IF byProvider # {}
    THEN {LET u1 == update_user_profile_from_social(u, provider, info, t)
              u2 == IF Truthy(email) /\ ~Truthy(u1.email)
                    THEN [u1 EXCEPT !.email = email] ELSE u1
          IN [store |-> Commit(us, u2), user |-> u2, branch |-> "provider"]
          : u \in byProvider}
    ELSE IF byEmail # {}
    THEN {LET u1 == [u EXCEPT !.social_provider = Some(provider),
                              !.social_id = Some(social_id)]
              u2 == update_user_profile_from_social(u1, provider, info, t)
          IN [store |-> Commit(us, u2), user |-> u2, branch |-> "email"]
          : u \in byEmail}
    ELSE LET base == IF Truthy(email) THEN LocalPart(email[1])
                     ELSE provider \o <<"_">> \o social_id
             username == UniqueUsername(us, base, base, 1)
             n0 == [User(NextId(us), username) EXCEPT
                        !.email = email,
                        !.social_provider = Some(provider),
                        !.social_id = Some(social_id),
                        !.created_at = Some(t)]
             n1 == update_user_profile_from_social(n0, provider, info, t)
         IN {[store |-> us \cup {n1}, user |-> n1, branch |-> "create"]}

----------------------------------------------------------------------------
(* Social authentication routes *)

ProviderParams == {S_google, S_github, S_gitlab}

\* GET /auth/{provider}
social_login ==
    \E ld \in LoadSession(cookie, now), provider \in ProviderParams,
       state \in Nonces, redirect_ok \in BOOLEAN :
        /\ ~ld.crash
        /\ UNCHANGED <<users, now, configured, resolved, pending>>
        /\ IF ~validate_oauth_provider(provider, configured)
           THEN Respond(ld, ld.session,
                        Resp("social_login", 400, "", NoCookieOp, None, None))
           ELSE LET s1 == store_oauth_state(ld.session, state) IN
                IF redirect_ok
                THEN \* client.authorize_redirect keeps its state entry in the session
                     Respond(ld, [s1 EXCEPT !.client_state = state],
                             Resp("social_login", 302, "provider", NoCookieOp, None, Some(state)))
                ELSE Respond(ld, s1,
                             Resp("social_login", 500, "", NoCookieOp, None, Some(state)))

\* the state parameter of a callback: absent, empty, a stored nonce or a
\* forged one
StateParams == {None, Some(""), Some("forged")} \cup {Some(n) : n \in Nonces}

\* the state parameter of a callback the provider redirected to
IssuedStates == {Some(n) : n \in Nonces}

\* what a provider sends back: the profile and, for GitHub, the primary
\* address of the user/emails list
PayloadIds == {None, Some(S_42)}
PayloadEmails == {None, Some(S_mailA), Some(S_mailB)}
GoogleLogins ==
    {[provider |-> S_google, primary_email |-> None,
      raw |-> [id |-> i, email |-> e, name |-> Some(S_Ann), login |-> None,
               picture |-> Some(S_pic), avatar_url |-> None, locale |-> Some(S_ann)]]
     : i \in PayloadIds, e \in PayloadEmails}
GithubLogins ==
    {[provider |-> S_github, primary_email |-> e,
      raw |-> [id |-> i, email |-> None, name |-> None, login |-> Some(S_Ann),
               picture |-> None, avatar_url |-> Some(S_pic), locale |-> None]]
     : i \in PayloadIds, e \in PayloadEmails}
Logins == GoogleLogins \cup GithubLogins

\* the logins of the session specification: one account at each provider
FewLogins ==
    {l \in Logins : /\ l.raw.id = Some(S_42)
                    /\ l.raw.email = IF l.provider = S_google THEN Some(S_mailA) ELSE None
                    /\ l.primary_email = None}

\* the logins of the continuity specification: one Google account that
\* reports either address, and a GitHub account with the first address
ContinuityLogins ==
    {l \in Logins : /\ l.raw.id = Some(S_42)
                    /\ IF l.provider = S_google THEN l.raw.email # None
                       ELSE l.primary_email = Some(S_mailA)}

\* the login of the accounts specification: one Google account
OneLogin == {l \in FewLogins : l.provider = S_google}

\* Google profiles with one field at the length limit: a name of exactly
\* the limit, an avatar of one character more, a picture one character
\* short of the limit that ends in '<', and a login of the limit after a
\* leading space
LongLogins ==
    LET base == [id |-> Some(S_42), email |-> None, name |-> Some(S_Ann),
                 login |-> None, picture |-> Some(S_pic), avatar_url |-> None,
                 locale |-> Some(S_ann)]
    IN {[provider |-> S_google, primary_email |-> None, raw |-> r] :
            r \in {base,
                    [base EXCEPT !.name = Some(Repeat("a", SanitizeMaxLen))],
                    [base EXCEPT !.avatar_url =
                                    Some(Repeat("a", SanitizeMaxLen + 1))],
                    [base EXCEPT !.picture =
                                    Some(Repeat("a", SanitizeMaxLen - 1) \o <<"<">>)],
                    [base EXCEPT !.login =
                                    Some(<<" ">> \o Repeat("a", SanitizeMaxLen))]}}

\* str(x) of an optional value
StrOf(o) == IF o = None THEN S_None ELSE o[1]

\* identity and email a callback takes from the sanitized profile
SocialIdOf(provider, user_info) ==
    IF provider = S_google THEN user_info.id ELSE Some(StrOf(user_info.id))

EmailOf(provider, user_info, primary_email) ==
    IF provider = S_google THEN user_info.email
    ELSE PyOr(primary_email, user_info.email)

\* an except clause that lets the error through as a server error
OAuthFailedRaises(state) ==
    Resp("social_callback", 500, "", NoCookieOp, None, state)

\* except Exception: return RedirectResponse("/login?error=oauth_failed")
OAuthFailed(state) ==
    Resp("social_callback", 303, "/login?error=oauth_failed", NoCookieOp, None, state)

\* history: the social login with (provider, social_id) resolved to row uid
Resolution(provider, social_id, uid) ==
    [provider |-> provider, social_id |-> social_id, uid |-> uid]

\* GET /auth/{provider}/callback, with the state parameters the client may
\* send and the logins the providers may report; the history records the
\* resolutions of the tracked providers
social_callback(states, logins, tracked) ==
    \E ld \in LoadSession(cookie, now), provider \in ProviderParams,
       state \in states :
        /\ ~ld.crash
        /\ UNCHANGED <<now, configured, pending>>
        /\ IF ~validate_oauth_provider(provider, configured)
           THEN /\ UNCHANGED <<users, resolved>>
                /\ Respond(ld, ld.session,
                           Resp("social_callback", 400, "", NoCookieOp, None, state))
           ELSE IF state = None \/ state[1] = ""
                   \/ ~verify_oauth_state(ld.session, state[1])
           THEN /\ UNCHANGED <<users, resolved>>
                /\ Respond(ld, ld.session,
                           Resp("social_callback", 400, "", NoCookieOp, None, state))
           ELSE LET s1 == clear_oauth_state(ld.session)
                    failed == OAuthFailed(state)
                IN
                \* the provider reported an error: the OAuth client keeps
                \* its state entry
                \/ /\ UNCHANGED <<users, resolved>>
                   /\ Respond(ld, s1, failed)
                \* the token exchange or a profile request failed
                \/ /\ UNCHANGED <<users, resolved>>
                   /\ Respond(ld, [s1 EXCEPT !.client_state = ""], failed)
                \/ \E lg \in {l \in logins : l.provider = provider} :
                     LET s2 == [s1 EXCEPT !.client_state = ""]
                         user_info == sanitize_user_input(lg.raw)
                         social_id == SocialIdOf(provider, user_info)
                         email == EmailOf(provider, user_info, lg.primary_email)
                     IN
                     IF ~Truthy(social_id)
                     THEN /\ UNCHANGED <<users, resolved>>
                          /\ Respond(ld, s2, failed)
                     ELSE \E res \in find_or_create_social_user(users, provider,
                                         social_id[1], user_info, email, now) :
                          /\ Cardinality(res.store) <= MaxUsers
                          /\ \A u \in res.store : u.id <= MaxUsers + 1
                          /\ users' = res.store
                          /\ resolved' = resolved \cup
                                {r \in {Resolution(provider, social_id[1], res.user.id)} :
                                   r.provider \in tracked}
                          /\ Respond(ld, s2,
                                     [Resp("social_callback", 303, "/dashboard",
                                           SetCookieOp(create_session_cookie(res.user.id, now)),
                                           Some(res.user.id), state)
                                      EXCEPT !.branch = res.branch])

----------------------------------------------------------------------------
(* Concurrent callbacks: find_or_create_social_user statement by statement *)

\* two callback requests, served by different workers
Requests == {"r1", "r2"}

\* a request that has not reached find_or_create_social_user: its position,
\* the email of its profile, the username it chose and the row it resolved to
Idle == [pc |-> "idle", email |-> None, username |-> <<>>, uid |-> None]

\* the profile both requests carry, up to the email the provider reports
RaceInfo(email) ==
    sanitize_user_input(
        [id |-> Some(S_42), email |-> email, name |-> Some(S_Ann),
         login |-> None, picture |-> Some(S_pic), avatar_url |-> None,
         locale |-> None])

\* the response of the callback that ends request r
RaceRespond(r, pos, resp) ==
    /\ pending' = [pending EXCEPT ![r] = pos]
    /\ last' = resp
    /\ UNCHANGED <<cookie, now, configured, resolved>>

\* social_callback calls find_or_create_social_user for request r
CallbackArrives(r) ==
    /\ pending[r].pc = "idle"
    /\ \E email \in PayloadEmails :
          pending' = [pending EXCEPT ![r] = [Idle EXCEPT !.pc = "lookup",
                                                         !.email = email]]
    /\ UNCHANGED <<users, cookie, now, configured, last, resolved>>

\* the selects by provider identity and by email, and the commit of the
\* row found
LookupStep(r) ==
    /\ pending[r].pc = "lookup"
    /\ LET email == pending[r].email
           byEmail == IF Truthy(email) THEN ByEmail(users, email[1]) ELSE {}
       IN
       IF ByProvider(users, S_google, S_42) = {} /\ byEmail = {}
       THEN /\ pending' = [pending EXCEPT ![r].pc = "username"]
            /\ UNCHANGED <<users, cookie, now, configured, last, resolved>>
       ELSE \E res \in find_or_create_social_user(users, S_google, S_42,
                                                  RaceInfo(email), email, now) :
               /\ users' = res.store
               /\ RaceRespond(r, [pending[r] EXCEPT !.pc = "done",
                                                    !.uid = Some(res.user.id)],
                              [Resp("social_callback", 303, "/dashboard",
                                    SetCookieOp(create_session_cookie(res.user.id, now)),
                                    Some(res.user.id), None)
                               EXCEPT !.branch = res.branch])

\* the loop of selects that chooses a username no row has
UsernameStep(r) ==
    /\ pending[r].pc = "username"
    /\ LET email == pending[r].email
           base == IF Truthy(email) THEN LocalPart(email[1])
                   ELSE S_google \o <<"_">> \o S_42
       IN pending' = [pending EXCEPT
                         ![r].pc = "insert",
                         ![r].username = UniqueUsername(users, base, base, 1)]
    /\ UNCHANGED <<users, cookie, now, configured, last, resolved>>

\* s.add(new_user); s.commit(): the unique index on username raises
\* IntegrityError when a row took the name meanwhile, and social_callback
\* catches it
InsertStep(r) ==
    /\ pending[r].pc = "insert"
    /\ IF ByUsername(users, pending[r].username) # {}
       THEN /\ UNCHANGED users
            /\ RaceRespond(r, [pending[r] EXCEPT !.pc = "failed"], OAuthFailed(None))
       ELSE LET email == pending[r].email
                n0 == [User(NextId(users), pending[r].username) EXCEPT
                           !.email = email,
                           !.social_provider = Some(S_google),
                           !.social_id = Some(S_42),
                           !.created_at = Some(now)]
                n1 == update_user_profile_from_social(n0, S_google,
                                                      RaceInfo(email), now)
            IN /\ users' = users \cup {n1}
               /\ RaceRespond(r, [pending[r] EXCEPT !.pc = "done",
                                                    !.uid = Some(n1.id)],
                              [Resp("social_callback", 303, "/dashboard",
                                    SetCookieOp(create_session_cookie(n1.id, now)),
                                    Some(n1.id), None)
                               EXCEPT !.branch = "create"])

----------------------------------------------------------------------------
(* Environment: the clock and the client *)

\* the clock is observed when the process starts and once the session max
\* age has passed
Tick ==
    \E d \in {MaxTime} :
        /\ now + d <= MaxTime
        /\ now' = now + d
        /\ last' = Resp("tick", 0, "", NoCookieOp, None, None)
        /\ UNCHANGED <<users, cookie, configured, resolved, pending>>

\* a cookie value that was never signed
Garbage == [value |-> <<"x">>, ts |-> 0, sig |-> Mac("", <<>>, 0), pad |-> 0]

\* a token with one part altered
Alterations(tok, t) ==
    ({[tok EXCEPT !.value = v] : v \in {IntToStr(1), <<"x">>}}
     \cup {[tok EXCEPT !.ts = t]}
     \cup {[tok EXCEPT !.sig = Mac("forged", tok.value, tok.ts)]}
     \cup {[tok EXCEPT !.pad = 1]}) \ {tok}

\* the client edits its "session" cookie
TamperCookie ==
    /\ IF cookie = None THEN TRUE
       ELSE cookie[1] = Sign(cookie[1].value, cookie[1].ts)
    /\ cookie' \in IF cookie = None THEN {Some(Garbage)}
                   ELSE {Some(a) : a \in Alterations(cookie[1], now)}
    /\ last' = Resp("tamper", 0, "", NoCookieOp, None, None)
    /\ UNCHANGED <<users, now, configured, resolved, pending>>

----------------------------------------------------------------------------
(* The client's cookie jar *)

\* the client starts over with an empty cookie jar
NewBrowser ==
    /\ cookie # None
    /\ cookie' = None
    /\ last' = Resp("new_browser", 0, "", NoCookieOp, None, None)
    /\ UNCHANGED <<users, now, configured, resolved, pending>>

----------------------------------------------------------------------------
(* Specifications *)

\* which providers have client id and secret in the environment
Configurations == {{S_google, S_github}}

Init ==
    /\ users = {AdminRow}
    /\ cookie = None
    /\ now = 0
    /\ configured \in Configurations
    /\ resolved = {}
    /\ pending = [r \in Requests |-> Idle]
    /\ last = Resp("start", 0, "", NoCookieOp, None, None)

\* Sessions and the OAuth state guard, with one account at each provider
Next ==
    \/ MiddlewareError
    \/ register_action
    \/ login_action
    \/ logout
    \/ dashboard
    \/ social_login
    \/ social_callback(StateParams, FewLogins, {})
    \/ Tick
    \/ TamperCookie
    \/ NewBrowser

Spec == Init /\ [][Next]_vars

\* The social identity resolver: callbacks that carry an issued state, with
\* every login the providers may report
NextResolver ==
    \/ register_action
    \/ social_login
    \/ social_callback(IssuedStates, Logins, {})
    \/ NewBrowser

SpecResolver == Init /\ [][NextResolver]_vars

\* Accounts: registration, password login, settings, the admin forms that
\* create and edit users, and social logins with one Google account
NextAccounts ==
    \/ register_action
    \/ login_action
    \/ update_settings
    \/ admin_create_user
    \/ admin_update_user
    \/ social_login
    \/ social_callback(IssuedStates, OneLogin, {})

SpecAccounts == Init /\ [][NextAccounts]_vars

\* The admin pages: create, edit, activate or deactivate, and delete users
NextAdmin ==
    \/ login_action
    \/ admin_create_user
    \/ admin_update_user
    \/ admin_toggle_user_status
    \/ admin_delete_user

SpecAdmin == Init /\ [][NextAdmin]_vars

\* The QR routes over accounts with and without a phone and a preset
NextQr ==
    \/ register_action
    \/ update_settings
    \/ social_login
    \/ social_callback(IssuedStates, OneLogin, {})
    \/ qr_png
    \/ public_qr

SpecQr == Init /\ [][NextQr]_vars

\* Social logins whose profiles carry fields at the length limit
NextSanitize ==
    \/ register_action
    \/ social_login
    \/ social_callback(IssuedStates, LongLogins, {})
    \/ NewBrowser

SpecSanitize == Init /\ [][NextSanitize]_vars

\* passwords longer than bcrypt's limit that differ after it, and a short one
LongPasswords ==
    {Repeat("a", BcryptMaxBytes) \o <<"x">>,
     Repeat("a", BcryptMaxBytes) \o <<"y">>, S_pw}

\* Registration and password login with long passwords
NextPasswords ==
    \/ RegisterWith(LongPasswords)
    \/ LoginWith(LongPasswords)
    \/ update_settings
    \/ logout
    \/ dashboard
    \/ Tick

SpecPasswords == Init /\ [][NextPasswords]_vars

\* Two concurrent first callbacks of one Google account
NextRace ==
    \E r \in Requests :
        \/ CallbackArrives(r)
        \/ LookupStep(r)
        \/ UsernameStep(r)
        \/ InsertStep(r)

SpecRace == Init /\ [][NextRace]_vars

\* Repeated social logins, with the history of the Google resolutions
NextContinuity ==
    \/ social_login
    \/ social_callback(IssuedStates, ContinuityLogins, {S_google})
    \/ NewBrowser

SpecContinuity == Init /\ [][NextContinuity]_vars

----------------------------------------------------------------------------
(* Session signer: claims *)

UserIds == 0..MaxId

\* tok is, byte for byte, the token create_session_cookie wrote for some
\* user id at tok.ts, and is not older than the max age at time t
IssuedUnexpired(tok, t) ==
    /\ \E n \in UserIds : tok = create_session_cookie(n, tok.ts)
    /\ t - tok.ts >= 0 /\ t - tok.ts <= MaxAge

\* tok differs from such a token at most in the unused bits of the last
\* character of its signature
DecodesToIssuedUnexpired(tok, t) == IssuedUnexpired([tok EXCEPT !.pad = 0], t)

\* C1: for every user id N, reading the token issued for N at the moment it
\* is issued gives N back; so does reading the token a handler has just put
\* in its response.
C1_ReadAfterIssue ==
    /\ \A n \in UserIds :
          read_session_cookie(create_session_cookie(n, now), now)
              = [raised |-> FALSE, ret |-> Some(n)]
    /\ last.cookie_op.kind = "set" =>
          read_session_cookie(last.cookie_op.token[1], now).ret = last.uid

\* a handler has just issued a token, the browser holds it and it reads as
\* the user it was issued for
C1_Witness ==
    /\ last.cookie_op.kind = "set"
    /\ cookie = last.cookie_op.token
    /\ read_session_cookie(cookie[1], now).ret = last.uid
    /\ get_current_user(cookie, now, users) # None

\* C2: a token issued at time t and read later than t + MaxAge reads as
\* None, and get_current_user finds no user for it.
C2_ExpiredIsInvalid ==
    /\ \A n \in UserIds, t \in 0..1 :
          now > t + MaxAge =>
             /\ read_session_cookie(create_session_cookie(n, t), now).ret = None
             /\ get_current_user(Some(create_session_cookie(n, t)), now, users) = None
    /\ (cookie # None /\ now > cookie[1].ts + MaxAge) =>
          get_current_user(cookie, now, users) = None

\* the browser presents the token of an existing user after the max age has
\* passed and the dashboard sends it to the login page
C2_Witness ==
    /\ cookie # None
    /\ \E u \in users : cookie[1] = create_session_cookie(u.id, 0)
    /\ now > MaxAge
    /\ last.op = "dashboard" /\ last.status = 307

----------------------------------------------------------------------------
(* OAuth state guard: claims *)

\* C4: a callback whose state parameter is missing, or that finds no stored
\* nonce, or whose state differs from the stored nonce, is aborted: the
\* store is unchanged, the response sets no identity cookie, and the stored
\* nonce is what it was.
C4_AbortLeavesState ==
    [][(/\ last'.op = "social_callback"
        /\ IF last'.state = None THEN TRUE
           ELSE \/ StoredNonce(cookie, now) = ""
                \/ last'.state[1] # StoredNonce(cookie, now))
       => /\ last'.status = 400
          /\ users' = users
          /\ last'.cookie_op.kind = "none"
          /\ last'.uid = None
          /\ StoredNonce(cookie', now') = StoredNonce(cookie, now)]_vars

\* a callback with a forged state was refused while a nonce was stored, and
\* the nonce is still stored
C4_Witness ==
    /\ last.op = "social_callback" /\ last.status = 400
    /\ last.state = Some("forged")
    /\ StoredNonce(cookie, now) \in Nonces

\* C5: an accepted callback clears the stored nonce whether or not the token
\* exchange succeeds; while no nonce is stored every callback is refused,
\* whatever state it carries; and only a login start stores a nonce again.
C5_SingleUse ==
    [][/\ (last'.op = "social_callback" /\ last'.status = 303)
              => StoredNonce(cookie', now') = ""
       /\ (last'.op = "social_callback" /\ StoredNonce(cookie, now) = "")
              => last'.status = 400
       /\ (StoredNonce(cookie, now) = "" /\ StoredNonce(cookie', now') # "")
              => last'.op = "social_login"]_vars

\* a callback carrying the stored nonce was accepted, its token exchange
\* failed, and no nonce is stored any more
C5_Witness ==
    /\ last.op = "social_callback" /\ last.status = 303
    /\ last.loc = "/login?error=oauth_failed"
    /\ last.state \in {Some(n) : n \in Nonces}
    /\ StoredNonce(cookie, now) = ""

\* C6: the nonce and the identity token travel in distinct cookies: a login
\* start leaves the identity token the browser holds readable; an identity
\* token a handler issues is the one the browser then holds, and issuing it
\* leaves the stored nonce as it was; deleting the identity cookie leaves
\* the stored nonce as it was.
C6_DistinctCookies ==
    [][/\ (/\ last'.op = "social_login" /\ last'.status = 302
           /\ get_current_user(cookie, now, users) # None)
              => get_current_user(cookie', now', users')
                     = get_current_user(cookie, now, users)
       /\ last'.cookie_op.kind = "set"
              => /\ StoredNonce(cookie', now') = StoredNonce(cookie, now)
                 /\ cookie' # None
                 /\ read_session_cookie(cookie'[1], now').ret = last'.uid
       /\ last'.cookie_op.kind = "delete"
              => StoredNonce(cookie', now') = StoredNonce(cookie, now)]_vars

----------------------------------------------------------------------------
(* Social identity resolver: claims *)

\* the arguments social_callback passes to find_or_create_social_user for
\* the logins the providers may report
ResolverCalls ==
    {[provider |-> lg.provider,
      social_id |-> SocialIdOf(lg.provider, sanitize_user_input(lg.raw))[1],
      info |-> sanitize_user_input(lg.raw),
      email |-> EmailOf(lg.provider, sanitize_user_input(lg.raw), lg.primary_email)]
     : lg \in {l \in Logins :
                 Truthy(SocialIdOf(l.provider, sanitize_user_input(l.raw)))}}

\* the results of the call c on the current store
Resolve(c) ==
    find_or_create_social_user(users, c.provider, c.social_id, c.info, c.email, now)

HasIdentity(u, c) ==
    u.social_provider = Some(c.provider) /\ u.social_id = Some(c.social_id)

HasEmail(u, c) == Truthy(c.email) /\ u.email = c.email

\* C7: when a user U1 has the incoming (provider, subject id) and a different
\* user U2 has the supplied email, the call returns U1, creates no row and
\* leaves U2 as it was.
C7_IdentityBeforeEmail ==
    \A c \in ResolverCalls : \A u1, u2 \in users :
        (HasIdentity(u1, c) /\ u2 # u1 /\ HasEmail(u2, c))
            => \A res \in Resolve(c) :
                   /\ res.user.id = u1.id
                   /\ Ids(res.store) = Ids(users)
                   /\ Cardinality(res.store) = Cardinality(users)
                   /\ u2 \in res.store

\* the last login was resolved by provider identity although another row
\* holds the address it reported
C7_Witness ==
    /\ last.op = "social_callback" /\ last.branch = "provider"
    /\ \E u1, u2 \in users :
          /\ u1.id = last.uid[1] /\ u2.id # u1.id
          /\ u1.social_data # None
          /\ Truthy(u1.social_data[1].email)
          /\ u2.email = u1.social_data[1].email
          /\ u2.social_provider # u1.social_provider

\* C8: when the call matches a user by (provider, subject id), the stored
\* email is set from the login if it was null and is left as it was if it
\* was not null, for both providers.
C8_EmailOnlyBackfilled ==
    \A c \in ResolverCalls : \A u \in users :
        HasIdentity(u, c)
            => \A res \in Resolve(c) :
                   res.user.id = u.id
                       => res.user.email = IF u.email # None THEN u.email
                                           ELSE c.email

\* C9: when no user has the incoming (provider, subject id), an email is
\* supplied and some user has exactly that email, the call creates no row,
\* sets the provider and subject id of a user with that email to the incoming
\* ones, changes no other row, and returns that user.
C9_EmailLinks ==
    \A c \in ResolverCalls :
        (/\ \A u \in users : ~HasIdentity(u, c)
         /\ \E u \in users : HasEmail(u, c))
            => \A res \in Resolve(c) :
                   /\ Ids(res.store) = Ids(users)
                   /\ Cardinality(res.store) = Cardinality(users)
                   /\ res.user \in res.store
                   /\ HasIdentity(res.user, c)
                   /\ \E u \in users :
                         /\ HasEmail(u, c) /\ u.id = res.user.id
                         /\ res.user.username = u.username
                         /\ res.store \ {res.user} = users \ {u}

\* a GitHub login was linked by its address onto an account that a social
\* signup had created
C9_Witness ==
    /\ last.op = "social_callback" /\ last.branch = "email"
    /\ Cardinality(users) = 2
    /\ \E u \in users :
          /\ u.id = last.uid[1]
          /\ u.password_hash = None
          /\ u.social_provider = Some(S_github)
          /\ u.social_id = Some(S_42)
          /\ u.email = Some(S_mailB)
          /\ u.username = LocalPart(S_mailB)

\* the candidate username of the call c
Candidate(c) ==
    IF Truthy(c.email) THEN LocalPart(c.email[1])
    ELSE c.provider \o <<"_">> \o c.social_id

Suffixed(c, k) == Candidate(c) \o <<"_">> \o IntToStr(k)

Used(name) == \E u \in users : u.username = name

\* C10: when neither lookup matches, the call inserts exactly one user, with
\* no password hash and the incoming provider and subject id, whose username
\* is the candidate if unused and otherwise candidate_k for the smallest
\* k >= 1 that is unused; no existing row changes.
C10_CreateWithUniqueUsername ==
    \A c \in ResolverCalls :
        (/\ \A u \in users : ~HasIdentity(u, c)
         /\ \A u \in users : ~HasEmail(u, c))
            => \A res \in Resolve(c) :
                   /\ res.user \notin users
                   /\ res.user.id \notin Ids(users)
                   /\ res.store = users \cup {res.user}
                   /\ res.user.password_hash = None
                   /\ HasIdentity(res.user, c)
                   /\ IF ~Used(Candidate(c))
                      THEN res.user.username = Candidate(c)
                      ELSE \E k \in 1..(Cardinality(users) + 1) :
                              /\ res.user.username = Suffixed(c, k)
                              /\ ~Used(Suffixed(c, k))
                              /\ \A j \in 1..(k - 1) : Used(Suffixed(c, j))

\* a signup whose candidate and first suffix were taken got the suffix _2
C10_Witness ==
    /\ last.op = "social_callback" /\ last.branch = "create"
    /\ \E u \in users :
          /\ u.id = last.uid[1]
          /\ u.username = S_admin \o <<"_", "2">>
          /\ u.password_hash = None
    /\ \E u \in users : u.username = S_admin
    /\ \E u \in users : u.username = S_admin_1

----------------------------------------------------------------------------
(* Identity continuity: claims *)

\* C11: once a social login with (provider, subject id) has resolved to user
\* U, every later social login with the same (provider, subject id) resolves
\* to U and creates no row, as long as U is not deleted, whatever logins
\* through the other provider came between and whatever email it supplies.
C11_Continuity ==
    [][\A r \in resolved :
          (/\ r.uid \in Ids(users)
           /\ last'.op = "social_callback" /\ last'.uid # None
           /\ \E u \in users' :
                 /\ u.id = last'.uid[1]
                 /\ u.social_provider = Some(r.provider)
                 /\ u.social_id = Some(r.social_id))
              => (last'.uid = Some(r.uid) /\ Ids(users') = Ids(users))]_vars

----------------------------------------------------------------------------
(* The user store: claims *)

\* C12: in every state reached by register, admin create, admin update and
\* social-login operations, no two user rows have the same username.
C12_UsernameUnique ==
    \A u1, u2 \in users : u1.username = u2.username => u1 = u2

\* a social signup found its candidate and the first suffix taken and made
\* a third username
C12_Witness ==
    /\ last.op = "social_callback" /\ last.branch = "create"
    /\ {S_admin, S_admin_1, S_admin \o <<"_", "2">>}
           \subseteq {u.username : u \in users}

\* C13: in every state reached by sequentially executed operations, no two
\* user rows have the same (social_provider, social_id) pair when both
\* fields are present.
C13_SocialIdentityUnique ==
    \A u1, u2 \in users :
        (/\ u1.social_provider # None /\ u1.social_id # None
         /\ u2.social_provider = u1.social_provider
         /\ u2.social_id = u1.social_id)
            => u1 = u2

\* a login found its identity on a row while another row carries the same
\* subject id at the other provider
C13_Witness ==
    /\ last.op = "social_callback" /\ last.branch = "provider"
    /\ \E u1, u2 \in users :
          /\ u1.id = last.uid[1]
          /\ u1.social_provider = Some(S_google)
          /\ u2.social_provider = Some(S_github)
          /\ u1.social_id = Some(S_42) /\ u2.social_id = Some(S_42)

\* the E.164 format: '+', a first digit 1-9, and 9 to 15 digits in all
IsE164(p) ==
    /\ Len(p) >= 10 /\ Len(p) <= 16
    /\ p[1] = "+"
    /\ p[2] \in Digits \ {"0"}
    /\ \A i \in 3..Len(p) : p[i] \in Digits

\* C14: in every reachable state each user row's phone number is absent or
\* in the E.164 format; register, settings update, admin create and admin
\* update never store another phone.
C14_PhoneIsE164 ==
    \A u \in users : u.phone_e164 = None \/ IsE164(u.phone_e164[1])

\* C15: every user row without a password hash has a social provider; a
\* row without a password hash is created only by the social-login flow, and
\* no operation clears the provider or the password hash of a row.
C15_NoHashMeansSocial ==
    [][/\ \A u \in users : u.password_hash = None => u.social_provider # None
       /\ \A v \in users' : v.password_hash = None => v.social_provider # None
       /\ \A v \in users' :
             (v.id \notin Ids(users) /\ v.password_hash = None)
                 => last'.op = "social_callback"
       /\ \A u \in users, v \in users' :
             u.id = v.id
                 => /\ u.password_hash # None => v.password_hash # None
                    /\ u.social_provider # None => v.social_provider # None]_vars

\* an admin edited a social-only row without giving a password: the row
\* still has no password hash and still has its provider
C15_Witness ==
    /\ last.op = "admin_update" /\ last.status = 303
    /\ \E u \in users :
          /\ u.password_hash = None
          /\ u.social_provider = Some(S_google)
          /\ u.is_admin

\* the characters of a username: alphanumeric, underscore and hyphen
UsernameChars ==
    {"a", "b", "c", "d", "e", "f", "g", "h", "i", "j", "k", "l", "m",
     "n", "o", "p", "q", "r", "s", "t", "u", "v", "w", "x", "y", "z",
     "A", "B", "C", "D", "E", "F", "G", "H", "I", "J", "K", "L", "M",
     "N", "O", "P", "Q", "R", "S", "T", "U", "V", "W", "X", "Y", "Z",
     "_", "-"} \cup Digits

UsernameMinLen == 3
UsernameMaxLen == 24

ValidUsername(name) ==
    /\ Len(name) >= UsernameMinLen /\ Len(name) <= UsernameMaxLen
    /\ \A i \in 1..Len(name) : name[i] \in UsernameChars

\* C16: every username stored by register, admin create, admin update or
\* social-login account creation is 3 to 24 characters long and consists
\* only of alphanumeric characters, underscore and hyphen.
C16_UsernameFormat ==
    \A u \in users : ValidUsername(u.username)

\* C17: a user row is deleted only by the admin delete action and only if
\* it is not an admin account, and the seeded admin account still exists
\* after any sequence of requests (admin update, toggle-status and delete
\* requests included).
C17_SeededAdminStays ==
    [][/\ \A u \in users :
             u.id \notin Ids(users')
                 => (last'.op = "admin_delete" /\ ~u.is_admin)
       /\ AdminRow.id \in Ids(users')]_vars

----------------------------------------------------------------------------
(* Failure taxonomy: claims *)

\* the handlers that reject a request for a validation error
ValidatingOps ==
    {"register", "settings", "admin_create", "admin_update",
     "social_login", "social_callback"}

\* C18: a request rejected for a validation error (malformed phone,
\* duplicate username, unsupported or unconfigured provider) mutates no
\* state: the user store and the stored OAuth nonce are unchanged, no
\* identity session cookie is issued and the browser's identity is the same.
C18_RejectionMutatesNothing ==
    [][(last'.op \in ValidatingOps /\ last'.status = 400)
          => /\ users' = users
             /\ StoredNonce(cookie', now') = StoredNonce(cookie, now)
             /\ last'.cookie_op.kind = "none"
             /\ get_current_user(cookie', now', users')
                    = get_current_user(cookie, now, users)]_vars

\* a callback for an unsupported or unconfigured provider was rejected
\* although it carried the stored nonce, and the nonce is still stored
C18_Witness ==
    /\ last.op = "social_callback" /\ last.status = 400
    /\ last.state # None
    /\ StoredNonce(cookie, now) \in Nonces
    /\ last.state[1] = StoredNonce(cookie, now)

\* the step is a request that failed to authenticate: a refused password
\* login, a callback whose state is missing or forged, or a page request
\* with a cookie that names no user
AuthenticationFailed ==
    \/ last'.op = "login" /\ last'.uid = None
    \/ last'.op = "social_callback" /\ last'.state \in {None, Some("forged")}
    \/ /\ last'.op = "dashboard"
       /\ cookie # None
       /\ get_current_user(cookie, now, users) = None

\* C19: all authentication failures (unknown username, bad password,
\* social-only account, deactivated account, expired or tampered session
\* token, missing or forged OAuth state) give the same response, which does
\* not tell the cause and redirects to the login entry point.
C19_UniformAuthFailure ==
    [][AuthenticationFailed
          => /\ last'.status = 307
             /\ last'.loc = "/login"
             /\ last'.detail = ""]_vars

\* C20: after the OAuth state has been verified, the callback either logs
\* the user in or, on any failure of the provider step, ends with a redirect
\* to the login page carrying the generic social-login-failed indicator: no
\* identity session cookie is issued, no user row is created or modified and
\* the browser holds no identity.
C20_ProviderFailureIsCaught ==
    [][(last'.op = "social_callback" /\ last'.status # 400)
          => \/ /\ last'.status = 303 /\ last'.loc = "/dashboard"
                /\ last'.cookie_op.kind = "set" /\ last'.uid # None
             \/ /\ last'.status = 303
                /\ last'.loc = "/login?error=oauth_failed"
                /\ last'.cookie_op.kind = "none" /\ last'.uid = None
                /\ users' = users
                /\ get_current_user(cookie', now', users') = None]_vars

\* a verified callback failed at the provider step: the user is sent to the
\* login page, the session cookie is gone and the store is as seeded
C20_Witness ==
    /\ last.op = "social_callback" /\ last.status = 303
    /\ last.loc = "/login?error=oauth_failed"
    /\ last.cookie_op.kind = "none"
    /\ cookie = None
    /\ users = {AdminRow}

----------------------------------------------------------------------------
(* Provider profiles: claims *)

\* C21: a callback whose provider profile carries no subject id is fatal for
\* the flow, for both providers: no user row is created or modified from
\* such a profile and no identity session is issued for it.  (The profile a
\* row was last resolved from is the row's social_data.)
C21_MissingSubjectIdIsFatal ==
    [][(last'.op = "social_callback" /\ last'.uid # None)
          => \A u \in users' :
                u.id = last'.uid[1]
                    => /\ u.social_data # None
                       /\ u.social_data[1].id # None]_vars

----------------------------------------------------------------------------
(* The chat link: claims *)

QrOps == {"qr_png", "public_qr"}

\* the link the claim describes for a phone and a preset
ChatLink(phone, preset) ==
    LET message ==
            IF preset # None /\ Strip(preset[1]) # <<>>
            THEN Strip(preset[1]) \o <<"\n">> \o <<"\n">> \o VIRAL_MARKETING_MESSAGE
            ELSE VIRAL_MARKETING_MESSAGE
    IN S_waMe \o Tail(phone) \o S_textParam \o Quote(message)

C30_QrDefinedOutcome ==
    [][last'.op \in QrOps
          => /\ last'.status \in {200, 404}
             /\ last'.status = 404 <=> last'.uid = None]_vars

----------------------------------------------------------------------------
(* Profile sanitization: claims *)

allowed_fields == {"id", "email", "name", "login", "picture", "avatar_url"}

\* the profiles the providers report in the specifications
Profiles == {l.raw : l \in Logins \cup LongLogins}

\* a callback stored this sanitized profile with a user row
Stored(out) == \E u \in users : u.social_data = Some(out)

HasAngle(s) == \E i \in 1..Len(s) : s[i] \in {"<", ">"}

\* C23 as stated, for every profile a callback sanitized and stored: the
\* keys returned are the allowed fields that are non-empty in the input and
\* not dropped, every returned value has '<' and '>' replaced by entities,
\* and a field is dropped exactly when its input value is longer than 500
\* characters.
C23_DroppedByInputLength ==
    \A data \in Profiles :
        LET out == sanitize_user_input(data) IN
        Stored(out) =>
        /\ DOMAIN out = allowed_fields
        /\ \A f \in allowed_fields :
              /\ out[f] # None => ~HasAngle(out[f][1])
              /\ out[f] = None
                    <=> (~Truthy(data[f]) \/ Len(data[f][1]) > SanitizeMaxLen)

\* C23, amended: the length that decides is that of the value after it was
\* stripped and escaped.
C23_DroppedBySanitizedLength ==
    \A data \in Profiles :
        LET out == sanitize_user_input(data) IN
        Stored(out) =>
        /\ DOMAIN out = allowed_fields
        /\ \A f \in allowed_fields :
              /\ out[f] # None
                    => /\ ~HasAngle(out[f][1])
                       /\ out[f][1] = Escape(Strip(data[f][1]))
              /\ out[f] = None
                    <=> \/ ~Truthy(data[f])
                        \/ Len(Escape(Strip(data[f][1]))) > SanitizeMaxLen

\* a login stored the profile whose picture, shorter than the limit, was
\* dropped for its escaped length
C23_Witness ==
    /\ last.op = "social_callback"
    /\ \E u \in users :
          /\ last.uid = Some(u.id)
          /\ u.social_data # None
          /\ u.social_data[1].picture = None
          /\ u.social_data[1].name = Some(S_Ann)

----------------------------------------------------------------------------
(* Passwords: claims *)

PasswordSamples == Passwords \cup LoginPasswords \cup LongPasswords

\* C24: for every password P, verify_password(P, hash_password(P)) is true,
\* and for every Q different from P, verify_password(Q, hash_password(P)) is
\* false; stated of every hash the store holds.
C24_VerifyOnlyOwnPassword ==
    \A u \in users, P \in PasswordSamples, salt \in Salts :
        (u.password_hash = Some(hash_password(P, salt)))
            => /\ verify_password(P, u.password_hash[1])
               /\ \A Q \in PasswordSamples \ {P} :
                     ~verify_password(Q, u.password_hash[1])

----------------------------------------------------------------------------
(* Admin authorization and login: claims *)

AdminOps == {"admin_create", "admin_update", "admin_toggle", "admin_delete"}

\* the identity cookie resolves to an existing user who is an active admin
ActiveAdminSession ==
    LET user == get_current_user(cookie, now, users) IN
    IF user = None THEN FALSE ELSE user[1].is_admin /\ user[1].is_active

\* C25: an admin mutation (create, update, toggle, delete) executes only
\* when the identity session resolves to an existing user whose admin and
\* active flags are both set; otherwise the request is rejected with 403
\* and the store is unchanged.
C25_AdminMutationsNeedActiveAdmin ==
    [][last'.op \in AdminOps
          => IF ActiveAdminSession
             THEN last'.status # 403
             ELSE last'.status = 403 /\ users' = users]_vars

\* a deactivated admin's session was refused
C25_Witness ==
    /\ last.op \in AdminOps
    /\ last.status = 403
    /\ LET user == get_current_user(cookie, now, users) IN
       IF user = None THEN FALSE ELSE user[1].is_admin /\ ~user[1].is_active

\* the rows a password login with these credentials may enter
Enterable(username, password) ==
    {u \in users : /\ u.username = username
                   /\ u.password_hash # None
                   /\ verify_password(password, u.password_hash[1])
                   /\ u.is_active}

\* C26: a password login issues an identity session for U if and only if U
\* exists under the submitted username, has a password hash, the password
\* verifies against it and U is active; on success the only change to the
\* store is U's last_login, and on failure the store is unchanged and no
\* cookie is set.
C26_PasswordLogin ==
    \A username \in LoginNames, password \in LoginPasswords :
        \A o \in LoginOutcomes(users, username, password, now) :
            IF Enterable(username, password) = {}
            THEN /\ o.store = users
                 /\ o.resp.status = 401
                 /\ o.resp.cookie_op = NoCookieOp
                 /\ o.resp.uid = None
            ELSE \E u \in Enterable(username, password) :
                 /\ o.resp.status = 303
                 /\ o.resp.uid = Some(u.id)
                 /\ o.resp.cookie_op.kind = "set"
                 /\ read_session_cookie(o.resp.cookie_op.token[1], now).ret
                        = Some(u.id)
                 /\ o.store = (users \ {u}) \cup {[u EXCEPT !.last_login = Some(now)]}

\* a social-only account was refused a password login
C26_Witness ==
    /\ last.op = "login"
    /\ last.status = 401
    /\ last.detail = "Please use social login for this account"
    /\ \E u \in users : u.password_hash = None /\ u.username \in LoginNames

\* C27: once an admin deactivated a user, no login flow (password or
\* social) issues a new identity session for that user, and a session
\* issued before no longer authenticates the user for dashboard and
\* settings: every request that issues a session for a user of the store or
\* acts for one acts for an active one.
C27_DeactivatedIsLockedOut ==
    [][(/\ last'.op \in {"login", "social_callback", "dashboard", "settings"}
        /\ last'.status \in {200, 303}
        /\ last'.uid # None)
          => \A u \in users : u.id = last'.uid[1] => u.is_active]_vars

----------------------------------------------------------------------------
(* Identity tokens and deleted accounts: claims *)

\* C28: an identity token issued for U never authenticates another user:
\* after U's deletion by an admin and the creation of new accounts,
\* get_current_user on U's token returns no user.  Stated of the request
\* that follows the deletion, for the token a login of U had issued.
C28_TokenNeverAnotherUser ==
    [][(last.op = "admin_delete" /\ last.status = 200)
          => get_current_user(Some(create_session_cookie(last.uid[1], now)),
                              now', users') = None]_vars

----------------------------------------------------------------------------
(* Concurrent callbacks: claims *)

\* C29: when two first callbacks for the same (provider, subject id) are
\* handled concurrently with their lookups and inserts interleaved, the
\* store ends with exactly one row that carries the identity and both
\* requests resolve to that row.
C29_OneRowForBoth ==
    (\A r \in Requests : pending[r].pc \in {"done", "failed"})
        => \E u \in users :
              /\ ByProvider(users, S_google, S_42) = {u}
              /\ \A r \in Requests : pending[r].uid = Some(u.id)

====
